---------------------------- MODULE Spec2Model ----------------------------
(***************************************************************************)
(* REFITT web API: the response dispatcher (refitt/web/api/response.py),   *)
(* the routes that use it (refitt/web/api/endpoint/user.py, facility.py)   *)
(* and the authentication chain they are wrapped in.                       *)
(*                                                                         *)
(* One request is served per step.  The state keeps the request, what the  *)
(* route did, what the wrapper built by endpoint() handed back to the      *)
(* framework, and the records the wrapper wrote to the module logger while *)
(* serving that request.                                                   *)
(***************************************************************************)
EXTENDS Integers, Sequences, FiniteSets, TLC

VARIABLES request, outcome, result, log, trace, revoked, now, secret, generated

\* request.data of the request served, and the rows of the user and
\* facility tables with their associations (refitt.database.model).
VARIABLES payload, users, facilities, associations

webvars == <<request, outcome, result, log, trace, revoked, now, secret, generated>>

datavars == <<payload, users, facilities, associations>>

\* The command line of `refitt data select` and what DataSelectApp.run did
\* with it (refitt/apps/refitt/data_select.py).
VARIABLES cmdline, app

selectvars == <<cmdline, app>>

\* A Mail of refitt/comm/notice/email.py: its MIME parts and payload index.
VARIABLES mail

\* The options of `refitt database init`, the calls run() has made, and
\* where it stands (refitt/apps/refitt/database/init.py).
VARIABLES options, calls, pc

initvars == <<options, calls, pc>>

\* A DatabaseClient of refitt/database/client.py.
VARIABLES database

\* The variables of the command-line applications and libraries.
appvars == <<selectvars, mail, initvars, database>>

\* What a step of the web API outside the data routes leaves alone.
nonweb == <<datavars, appvars>>

vars == <<webvars, datavars, appvars>>

(***************************************************************************)
(* Bounds                                                                  *)
(***************************************************************************)
MaxTime == 1            \* the clock runs over 0..MaxTime
MaxSecrets == 4         \* secrets generated in one behaviour
MaxRecords == 2         \* ids of the user and facility rows run over 1..MaxRecords
MaxLimit == 2           \* --limit takes 1..MaxLimit

(***************************************************************************)
(* STATUS: response.py:39-55                                               *)
(***************************************************************************)
STATUS ==
    [name \in {"OK", "Created", "No Content", "Bad Request", "Unauthorized",
               "Forbidden", "Not Found", "Method Not Allowed",
               "Payload Too Large", "I'm a teapot", "Too Many Requests",
               "Unavailable For Legal Reasons", "Internal Server Error",
               "Not Implemented", "Service Unavailable"} |->
        CASE name = "OK" -> 200
          [] name = "Created" -> 201
          [] name = "No Content" -> 204
          [] name = "Bad Request" -> 400
          [] name = "Unauthorized" -> 401
          [] name = "Forbidden" -> 403
          [] name = "Not Found" -> 404
          [] name = "Method Not Allowed" -> 405
          [] name = "Payload Too Large" -> 413
          [] name = "I'm a teapot" -> 418
          [] name = "Too Many Requests" -> 429
          [] name = "Unavailable For Legal Reasons" -> 451
          [] name = "Internal Server Error" -> 500
          [] name = "Not Implemented" -> 501
          [] name = "Service Unavailable" -> 503]

(***************************************************************************)
(* Exception classes.  RESPONSE_MAP (response.py:90-106) is keyed by the   *)
(* class object; RecordNotFound is database.model.NotFound and NotFound is *)
(* the web NotFound of response.py:62, two different classes.              *)
(***************************************************************************)
TaxonomyKinds ==
    {"TokenNotFound", "AuthenticationNotFound", "TokenInvalid",
     "AuthenticationInvalid", "PermissionDenied", "TokenExpired",
     "RecordNotFound", "NotFound", "PayloadNotFound", "PayloadMalformed",
     "PayloadInvalid", "ConstraintViolation", "ParameterInvalid",
     "NotImplementedError", "PayloadTooLarge"}

\* RESPONSE_MAP with 401 and 403 exchanged.
RESPONSE_MAP_Swapped ==
    [kind \in TaxonomyKinds |->
        CASE kind \in {"TokenNotFound", "AuthenticationNotFound", "TokenInvalid",
                       "AuthenticationInvalid"} -> STATUS["Unauthorized"]
          [] kind \in {"PermissionDenied", "TokenExpired"} -> STATUS["Forbidden"]
          [] kind \in {"RecordNotFound", "NotFound"} -> STATUS["Not Found"]
          [] kind = "NotImplementedError" -> STATUS["Not Implemented"]
          [] kind = "PayloadTooLarge" -> STATUS["Payload Too Large"]
          [] OTHER -> STATUS["Bad Request"]]

\* RESPONSE_MAP with every authentication failure answered 403.
RESPONSE_MAP_AuthForbidden ==
    [kind \in TaxonomyKinds |->
        CASE kind \in {"TokenNotFound", "AuthenticationNotFound", "TokenInvalid",
                       "AuthenticationInvalid", "PermissionDenied",
                       "TokenExpired"} -> STATUS["Forbidden"]
          [] kind \in {"RecordNotFound", "NotFound"} -> STATUS["Not Found"]
          [] kind = "NotImplementedError" -> STATUS["Not Implemented"]
          [] kind = "PayloadTooLarge" -> STATUS["Payload Too Large"]
          [] OTHER -> STATUS["Bad Request"]]

RESPONSE_MAP ==
    [kind \in TaxonomyKinds |->
        CASE kind = "TokenNotFound" -> STATUS["Forbidden"]
          [] kind = "AuthenticationNotFound" -> STATUS["Forbidden"]
          [] kind = "TokenInvalid" -> STATUS["Forbidden"]
          [] kind = "AuthenticationInvalid" -> STATUS["Forbidden"]
          [] kind = "PermissionDenied" -> STATUS["Unauthorized"]
          [] kind = "TokenExpired" -> STATUS["Unauthorized"]
          [] kind = "RecordNotFound" -> STATUS["Not Found"]
          [] kind = "NotFound" -> STATUS["Not Found"]
          [] kind = "PayloadNotFound" -> STATUS["Bad Request"]
          [] kind = "PayloadMalformed" -> STATUS["Bad Request"]
          [] kind = "PayloadInvalid" -> STATUS["Bad Request"]
          [] kind = "ConstraintViolation" -> STATUS["Bad Request"]
          [] kind = "ParameterInvalid" -> STATUS["Bad Request"]
          [] kind = "NotImplementedError" -> STATUS["Not Implemented"]
          [] kind = "PayloadTooLarge" -> STATUS["Payload Too Large"]]

\* Subclasses of Exception with no entry in RESPONSE_MAP: the WebException
\* base (response.py:58), the IntegrityError the endpoints import, KeyError.
OtherErrorKinds == {"WebException", "IntegrityError", "KeyError"}

\* Subclasses of BaseException that are not subclasses of Exception: an
\* `except Exception` clause (response.py:125, 147) does not catch them.
ExitKinds == {"SystemExit", "KeyboardInterrupt"}

ErrorKinds == TaxonomyKinds \cup OtherErrorKinds

\* isinstance(error, Exception): every class but the two above, the
\* TypeError and ValueError of a failed unpacking included.
IsException(kind) == kind \notin ExitKinds

(***************************************************************************)
(* Python values a route may return, as [t, n, headers]: t is the Python   *)
(* type, n tells values of one type apart, and for the (headers, stream)   *)
(* pair of a streaming route (response.py:109, 143) headers is the dict    *)
(* and n names the generator.  "dict[datetime]" is a dict that holds a     *)
(* datetime, such as a record's timestamp column.                          *)
(***************************************************************************)
HeaderValue ==
    [k \in {"Content-Disposition", "Content-Length"} |->
        IF k = "Content-Disposition" THEN "attachment" ELSE "42"]

NoHeaders == [k \in {} |-> ""]

HeaderMaps ==
    {[k \in ks |-> HeaderValue[k]] : ks \in SUBSET (DOMAIN HeaderValue)}

PyPlain(t, n) == [t |-> t, n |-> n, headers |-> NoHeaders]

PyValues ==
    {PyPlain("dict", 0), PyPlain("dict", 1), PyPlain("list", 1),
     PyPlain("tuple", 1), PyPlain("None", 0), PyPlain("dict[datetime]", 1)}
    \cup {[t |-> "pair", n |-> 1, headers |-> h] : h \in HeaderMaps}

\* json.dumps of the default encoder: dict, list, tuple and None are
\* encoded (a tuple as an array), a datetime or a generator raises TypeError.
JsonSerializable(v) == v.t \in {"dict", "list", "tuple", "None"}

json_dumps(v) ==
    [j |-> CASE v.t = "dict" -> "object"
             [] v.t \in {"list", "tuple"} -> "array"
             [] OTHER -> "null",
     n |-> v.n]

(***************************************************************************)
(* Errors: [type, msg] is an exception of class type built with the one    *)
(* argument msg.                                                           *)
(***************************************************************************)
Messages == {"Missing JSON data", ""}

NoError == [type |-> "", msg |-> ""]

Error(type, msg) == [type |-> type, msg |-> msg]

\* repr(error) in the place of str(error).
str_Repr(error) == error.type \o "('" \o error.msg \o "')"

\* str(error): the argument itself, except that KeyError gives its repr.
str(error) ==
    IF error.type = "KeyError" THEN "'" \o error.msg \o "'" ELSE error.msg

(***************************************************************************)
(* Clients and bearer tokens.  refitt/web/token.py, refitt/web/api/auth.py *)
(* and the Client model are described by the contract that the endpoints   *)
(* and the integration tests rely on.                                      *)
(***************************************************************************)
ClientIds == {1, 2}

\* Client.level: 0 is the administrator.
ClientLevel == [c \in ClientIds |-> c - 1]

\* The text after "Bearer " of a token that does not verify: the malformed
\* 'bad-token' of test_token_invalid, and one shorter than six characters.
BadTokens == {"bad-token", "abcd"}

\* A token claims a subject and an expiry; signed tells whether its
\* signature verifies and text is the string sent in the header.  Subject 3
\* is the id of no client.  A token that does not verify is malformed or
\* forged: what it claims is never read, so one claim stands for them all.
Tokens ==
    [present : {TRUE}, sub : ClientIds \cup {3}, exp : 0..MaxTime,
     signed : {TRUE}, text : {"eyJ0eXAi.eyJzdWIi.c2lnbmF0"}]
    \cup [present : {TRUE}, sub : {1}, exp : {MaxTime}, signed : {FALSE},
          text : BadTokens]

\* A request without an Authorization header.
NoToken == [present |-> FALSE, sub |-> 0, exp |-> 0, signed |-> FALSE, text |-> ""]

Min(a, b) == IF a < b THEN a ELSE b

Max(a, b) == IF a > b THEN a ELSE b

\* f'{token[:3]}...{token[-3:]}' with Python's slices, which stop at the
\* ends of a short string.
Preview(token) ==
    SubSeq(token, 1, Min(3, Len(token))) \o "..."
        \o SubSeq(token, Max(1, Len(token) - 2), Len(token))

\* JWT.decrypt followed by the client lookup and the revocation check of
\* `authenticated`: the error raised, or NoError when the client is passed on.
authenticated(header, flags, time) ==
    CASE ~header.present ->
            Error("TokenNotFound", "Expected \"Authorization: Bearer <token>\" in header")
      [] header.present /\ ~header.signed ->
            Error("TokenInvalid", "Token invalid: '" \o Preview(header.text) \o "'")
      [] header.present /\ header.signed /\ time > header.exp ->
            Error("TokenExpired", "Token expired")
      [] header.present /\ header.signed /\ time <= header.exp
            /\ header.sub \notin ClientIds ->
            Error("RecordNotFound", "No client with id=3")
      [] header.present /\ header.signed /\ time <= header.exp
            /\ header.sub \in ClientIds /\ header.sub \in flags ->
            Error("PermissionDenied", "Access has been revoked")
      [] OTHER -> NoError

\* Client.key: the public half of a client's credentials.
ClientKey == [c \in ClientIds |-> IF c = 1 THEN "key-1" ELSE "key-2"]

\* Client.from_key
ClientOfKey(key) == CHOOSE c \in ClientIds : ClientKey[c] = key

\* Secret.generate() gives a value never generated before; the n-th one is n.
\* Secret.hashed(): what the client record stores.
hashed(value) == <<"sha256", value>>

\* The key:secret pair of a request, from HTTP basic authentication.
NoAuth == [present |-> FALSE, key |-> "", secret |-> 0]

Credentials ==
    [present : {TRUE}, key : {ClientKey[c] : c \in ClientIds} \cup {"my-key"},
     secret : 1..MaxSecrets]

\* `authenticate`, the key:secret check of the login routes: the error
\* raised, or NoError when the client is passed on.
authenticate(auth, store, flags) ==
    CASE ~auth.present ->
            Error("AuthenticationNotFound", "Missing key:secret in header")
      [] auth.present /\ auth.key \notin {ClientKey[c] : c \in ClientIds} ->
            Error("AuthenticationInvalid", "Client key invalid")
      [] auth.present /\ auth.key \in {ClientKey[c] : c \in ClientIds}
            /\ hashed(auth.secret) # store[ClientOfKey(auth.key)] ->
            Error("AuthenticationInvalid", "Client secret invalid")
      [] auth.present /\ auth.key \in {ClientKey[c] : c \in ClientIds}
            /\ hashed(auth.secret) = store[ClientOfKey(auth.key)]
            /\ ClientOfKey(auth.key) \in flags ->
            Error("PermissionDenied", "Access has been revoked")
      [] OTHER -> NoError

\* authorization(level): the error raised for the authenticated client.
authorization(client, level) ==
    IF ClientLevel[client] > level
    THEN Error("PermissionDenied", "Authorization level insufficient")
    ELSE NoError

(***************************************************************************)
(* Requests.  Every route of user.py and facility.py is declared           *)
(*   @endpoint(content_type) @authenticated @authorization(level=0)        *)
(* (user.py:44-48, facility.py:32-36); content_type is the argument of     *)
(* endpoint (response.py:113).                                             *)
(***************************************************************************)
ContentTypes == {"application/json", "application/octet-stream", "text/html"}

\* The routes with the facility route declared authorization(level=1).
Routes_LevelOne ==
    {[method |-> "POST", path |-> "/user", level |-> 0],
     [method |-> "GET", path |-> "/facility/1", level |-> 1]}

Routes ==
    {[method |-> "POST", path |-> "/user", level |-> 0],
     [method |-> "GET", path |-> "/facility/1", level |-> 0]}

Requests ==
    [route : Routes, content_type : ContentTypes, header : Tokens \cup {NoToken},
     auth : {NoAuth}]

\* The login route, declared @endpoint('application/json') @authenticate;
\* it takes the key:secret pair and has no authorization level.
LoginRoute == [method |-> "GET", path |-> "/token", level |-> 0]

LoginRequests ==
    [route : {LoginRoute}, content_type : {"application/json"}, header : {NoToken},
     auth : Credentials \cup {NoAuth}]

\* What the handler body does when it is called: return a value or raise.
NoValue == PyPlain("", 0)

Return(v) == [kind |-> "return", value |-> v, error |-> NoError]

Raise(e) == [kind |-> "raise", value |-> NoValue, error |-> e]

Behaviours ==
    {Return(v) : v \in PyValues}
    \cup {Raise(Error(k, m)) : k \in ErrorKinds \cup ExitKinds, m \in Messages}

\* The handler body is reached only when both checks pass.
Reaches(req, flags, time) ==
    /\ authenticated(req.header, flags, time) = NoError
    /\ authorization(req.header.sub, req.route.level) = NoError

\* The route declared without @authenticated.
route_NoAuthentication(req, behaviour, flags, time) ==
    [outcome |-> behaviour, trace |-> <<"handler">>]

\* The route with the two decorators in the other order.
route_AuthorizationFirst(req, behaviour, flags, time) ==
    LET a == authenticated(req.header, flags, time)
        z == IF req.header.sub \in ClientIds
             THEN authorization(req.header.sub, req.route.level)
             ELSE NoError
    IN  IF z # NoError
        THEN [outcome |-> Raise(z), trace |-> <<"authorization">>]
        ELSE IF a # NoError
        THEN [outcome |-> Raise(a), trace |-> <<"authorization", "authenticated">>]
        ELSE [outcome |-> behaviour,
              trace |-> <<"authorization", "authenticated", "handler">>]

\* The decorated route as endpoint() receives it: authenticated, then
\* authorization, then the handler body.  Gives what the call does and the
\* steps that ran.
route(req, behaviour, flags, time) ==
    LET a == authenticated(req.header, flags, time)
        z == authorization(req.header.sub, req.route.level)
    IN  IF a # NoError
        THEN [outcome |-> Raise(a), trace |-> <<"authenticated">>]
        ELSE IF z # NoError
        THEN [outcome |-> Raise(z), trace |-> <<"authenticated", "authorization">>]
        ELSE [outcome |-> behaviour,
              trace |-> <<"authenticated", "authorization", "handler">>]

\* The decorated login route: authenticate, then the handler body.
login_route(req, behaviour, store, flags) ==
    LET a == authenticate(req.auth, store, flags)
    IN  IF a # NoError
        THEN [outcome |-> Raise(a), trace |-> <<"authenticate">>]
        ELSE [outcome |-> behaviour, trace |-> <<"authenticate", "handler">>]

(***************************************************************************)
(* What a wrapper hands back to the framework: a flask Response, None, or  *)
(* an exception that leaves the wrapper.                                   *)
(***************************************************************************)
NoBody == [k \in {} |-> ""]

\* Response built without its status argument: flask's default, 200.
Response_DefaultStatus(body, status, mimetype, headers, stream) ==
    [kind |-> "response", status |-> 200, mimetype |-> mimetype,
     body |-> body, headers |-> headers @@ [k \in {"Content-Type"} |-> mimetype],
     stream |-> stream, error |-> NoError]

Response(body, status, mimetype, headers, stream) ==
    [kind |-> "response", status |-> status, mimetype |-> mimetype,
     body |-> body, headers |-> headers @@ [k \in {"Content-Type"} |-> mimetype],
     stream |-> stream, error |-> NoError]

Blank(kind, error) ==
    [kind |-> kind, status |-> 0, mimetype |-> "", body |-> NoBody,
     headers |-> NoHeaders, stream |-> 0, error |-> error]

ReturnedNone == Blank("none", NoError)

Propagated(error) == Blank("raised", error)

\* json.dumps(response) of the envelope dict: the payload under 'Response'
\* is encoded, the strings stay strings.
Envelope(response) ==
    [k \in DOMAIN response |->
        IF k = "Response" THEN json_dumps(response[k]) ELSE response[k]]

\* log.info(f'{request.method} {request.path} {status}')
LogRecord(req, status) ==
    [method |-> req.route.method, path |-> req.route.path, status |-> status]

\* An error class a view function derives from a class of the taxonomy.
SubKinds == {"UserNotFound"}

\* The base class of each class: response.py:58-87 for the web exceptions;
\* the classes imported from token.py, auth.py and the data model, and the
\* builtin ones, are given their root.
Bases ==
    [kind \in ErrorKinds \cup SubKinds |->
        CASE kind = "UserNotFound" -> "NotFound"
          [] kind \in {"NotFound", "PayloadTooLarge", "PayloadNotFound",
                       "PayloadMalformed", "PayloadInvalid",
                       "ConstraintViolation", "ParameterInvalid"} -> "WebException"
          [] OTHER -> "Exception"]

\* type(error).__mro__ up to Exception.
RECURSIVE mro(_)
mro(kind) == IF kind \in DOMAIN Bases THEN {kind} \cup mro(Bases[kind]) ELSE {kind}

\* ErrorStatus that looks the error up with isinstance.
ErrorStatus_ByAncestry(error) ==
    IF mro(error.type) \cap DOMAIN RESPONSE_MAP # {}
    THEN RESPONSE_MAP[CHOOSE k \in mro(error.type) \cap DOMAIN RESPONSE_MAP :
                        \A j \in mro(error.type) \cap DOMAIN RESPONSE_MAP :
                            j \in mro(k)]
    ELSE STATUS["Internal Server Error"]

\* ErrorStatus that answers with the status of the error logged last.
ErrorStatus_Cached(error) ==
    IF log # <<>> /\ log[1].status >= 400
    THEN log[1].status
    ELSE IF error.type \in DOMAIN RESPONSE_MAP
    THEN RESPONSE_MAP[error.type]
    ELSE STATUS["Internal Server Error"]

\* ErrorStatus that answers 403 for every taxonomy error.
ErrorStatus_Forbidden(error) ==
    IF error.type \in DOMAIN RESPONSE_MAP
    THEN STATUS["Forbidden"]
    ELSE STATUS["Internal Server Error"]

\* ErrorStatus that never consults RESPONSE_MAP.
ErrorStatus_AlwaysInternal(error) == STATUS["Internal Server Error"]

\* response.py:125-133 and 147-155: the status and envelope of a caught error.
ErrorStatus(error) ==
    IF error.type \in DOMAIN RESPONSE_MAP
    THEN RESPONSE_MAP[error.type]
    ELSE STATUS["Internal Server Error"]

\* ErrorEnvelope that labels every error Critical.
ErrorEnvelope_Critical(error) == [Status |-> "Critical", Message |-> str(error)]

\* ErrorEnvelope that leaves the Status of the success envelope in place.
ErrorEnvelope_KeepsSuccess(error) == [Status |-> "Success", Message |-> str(error)]

\* ErrorEnvelope that leaves the message out.
ErrorEnvelope_NoMessage(error) ==
    [Status |-> IF error.type \in DOMAIN RESPONSE_MAP THEN "Error" ELSE "Critical"]

ErrorEnvelope(error) ==
    [Status |-> IF error.type \in DOMAIN RESPONSE_MAP THEN "Error" ELSE "Critical",
     Message |-> str(error)]

\* format_json with the class name in the place of str(error).
format_json_TypeName(req, called) ==
    LET caught == called.kind = "raise" /\ IsException(called.error.type)
        status == IF caught THEN ErrorStatus(called.error) ELSE STATUS["OK"]
        response ==
            IF called.kind = "return"
            THEN [Status |-> "Success", Response |-> called.value]
            ELSE IF caught
            THEN [Status |-> ErrorEnvelope(called.error).Status,
                  Message |-> called.error.type]
            ELSE [Status |-> "Success"]
    IN  [logged |-> <<LogRecord(req, status)>>,
         result |->
            IF called.kind = "return" /\ ~JsonSerializable(called.value)
            THEN Propagated(Error("TypeError", "not JSON serializable"))
            ELSE Response(Envelope(response), status, "application/json",
                          NoHeaders, 0)]

\* response.py:119-137.  `called` is what route(*args, **kwargs) did.  The
\* finally clause logs and returns, so it also ends a SystemExit or a
\* KeyboardInterrupt that `except Exception` let through; json.dumps runs
\* inside it, after the log call.
format_json(req, called) ==
    LET caught == called.kind = "raise" /\ IsException(called.error.type)
        status == IF caught THEN ErrorStatus(called.error) ELSE STATUS["OK"]
        response ==
            IF called.kind = "return"
            THEN [Status |-> "Success", Response |-> called.value]
            ELSE IF caught
            THEN ErrorEnvelope(called.error)
            ELSE [Status |-> "Success"]
    IN  [logged |-> <<LogRecord(req, status)>>,
         result |->
            IF called.kind = "return" /\ ~JsonSerializable(called.value)
            THEN Propagated(Error("TypeError",
                    IF called.value.t = "pair"
                    THEN "Object of type generator is not JSON serializable"
                    ELSE "Object of type datetime is not JSON serializable"))
            ELSE Response(Envelope(response), status, "application/json",
                          NoHeaders, 0)]

\* `headers, stream = route(*args, **kwargs)` (response.py:143) on a value
\* that is not a pair.
Unpack(v) ==
    IF v.t = "None"
    THEN Error("TypeError", "cannot unpack non-iterable NoneType object")
    ELSE IF v.n = 0
    THEN Error("ValueError", "not enough values to unpack (expected 2, got 0)")
    ELSE Error("ValueError", "not enough values to unpack (expected 2, got 1)")

\* format_stream whose except clause keeps the stream's content type.
format_stream_KeepsMimetype(req, called) ==
    LET unpacked == called.kind = "return" /\ called.value.t = "pair"
        error == IF called.kind = "return" THEN Unpack(called.value)
                 ELSE called.error
        caught == ~unpacked /\ IsException(error.type)
        status == IF caught THEN ErrorStatus(error) ELSE STATUS["OK"]
    IN  [logged |-> <<LogRecord(req, status)>>,
         result |->
            IF unpacked THEN ReturnedNone
            ELSE IF caught
            THEN Response(Envelope(ErrorEnvelope(error)), status,
                          "application/octet-stream", NoHeaders, 0)
            ELSE Propagated(error)]

\* response.py:139-159.  The try block builds the streamed Response and the
\* function ends after the finally clause without returning it; only the
\* except clause returns.
format_stream(req, called) ==
    LET unpacked == called.kind = "return" /\ called.value.t = "pair"
        error == IF called.kind = "return" THEN Unpack(called.value)
                 ELSE called.error
        caught == ~unpacked /\ IsException(error.type)
        status == IF caught THEN ErrorStatus(error) ELSE STATUS["OK"]
    IN  [logged |-> <<LogRecord(req, status)>>,
         result |->
            IF unpacked THEN ReturnedNone
            ELSE IF caught
            THEN Response(Envelope(ErrorEnvelope(error)), status,
                          "application/json", NoHeaders, 0)
            ELSE Propagated(error)]

\* content_type_not_implemented answering 501 Not Implemented.
content_type_not_implemented_501(content_type) ==
    Response(Envelope([Status |-> "Critical",
                       Message |-> "Content-type not defined: '" \o content_type \o "'"]),
             STATUS["Not Implemented"], "application/json", NoHeaders, 0)

\* response.py:161-165
content_type_not_implemented(content_type) ==
    Response(Envelope([Status |-> "Critical",
                       Message |-> "Content-type not defined: '" \o content_type \o "'"]),
             STATUS["Internal Server Error"], "application/json", NoHeaders, 0)

(***************************************************************************)
(* The state machine                                                       *)
(***************************************************************************)
(***************************************************************************)
(* The data routes: user.py and facility.py.  The tables of                *)
(* refitt.database.model are kept as functions from row id to the row's    *)
(* unique name (a user's alias, a facility's name), Absent where there is  *)
(* no row.                                                                 *)
(***************************************************************************)
Absent == "(no row)"

Names == {"a", "b"}

\* request.data.  form: "empty" is b'', "bytes" a body that is not UTF-8,
\* "text" UTF-8 that is not JSON, "array" JSON that is no object, "extra" an
\* object with a key the model has no column for, "profile" an object of
\* columns.  id is -1 when the profile has no 'id' key, 0 for null or 0.
NoPayload == [form |-> "empty", id |-> -1, name |-> ""]

Payloads ==
    {[form |-> f, id |-> -1, name |-> ""] :
        f \in {"empty", "bytes", "text", "array", "extra"}}
    \cup [form : {"profile"}, id : -1..MaxRecords, name : Names]

\* The unique constraint on the name column.
Taken(rows, name, self) == \E j \in DOMAIN rows \ {self} : rows[j] = name

\* Model.add: the new row gets an id that is not in use.  A free name
\* implies a free id, since names are unique and MaxRecords >= |Names|.
add(rows, name) ==
    IF Taken(rows, name, 0)
    THEN [error |-> Error("IntegrityError", "duplicate key value"),
          rows |-> rows, id |-> 0]
    ELSE LET free == {id \in DOMAIN rows : rows[id] = Absent}
             new == CHOOSE id \in free : \A j \in free : id <= j
         IN  [error |-> NoError, rows |-> [rows EXCEPT ![new] = name], id |-> new]

\* Model.update: the row with that id is looked up, then overwritten.
update(rows, id, name) ==
    CASE id \notin DOMAIN rows \/ rows[id] = Absent ->
            [error |-> Error("RecordNotFound", "No record with that id"),
             rows |-> rows, id |-> id]
      [] id \in DOMAIN rows /\ rows[id] # Absent /\ Taken(rows, name, id) ->
            [error |-> Error("IntegrityError", "duplicate key value"),
             rows |-> rows, id |-> id]
      [] OTHER -> [error |-> NoError, rows |-> [rows EXCEPT ![id] = name], id |-> id]

\* Model.delete: refused while an association refers to the row.
delete(rows, id, linked) ==
    CASE id \notin DOMAIN rows \/ rows[id] = Absent ->
            [error |-> Error("RecordNotFound", "No record with that id"),
             rows |-> rows, id |-> id]
      [] id \in DOMAIN rows /\ rows[id] # Absent /\ linked ->
            [error |-> Error("IntegrityError", "violates foreign key constraint"),
             rows |-> rows, id |-> id]
      [] OTHER -> [error |-> NoError, rows |-> [rows EXCEPT ![id] = Absent], id |-> id]

\* except IntegrityError as error: raise ConstraintViolation(str(error.args[0]))
Translate(error) ==
    IF error.type = "IntegrityError"
    THEN Error("ConstraintViolation", error.msg)
    ELSE error

\* add_profile that always adds, whatever 'id' the profile carries.
add_profile_AlwaysAdds(body, rows) ==
    CASE body.form = "empty" ->
            [outcome |-> Raise(Error("PayloadNotFound", "Missing JSON data")),
             rows |-> rows]
      [] body.form = "bytes" ->
            [outcome |-> Raise(Error("UnicodeDecodeError", "invalid start byte")),
             rows |-> rows]
      [] body.form = "text" ->
            [outcome |-> Raise(Error("PayloadMalformed", "Invalid JSON data")),
             rows |-> rows]
      [] body.form \in {"array", "extra"} ->
            [outcome |-> Raise(Error("PayloadInvalid", "Invalid parameters in JSON data")),
             rows |-> rows]
      [] OTHER ->
            LET done == add(rows, body.name)
            IN  IF done.error # NoError
                THEN [outcome |-> Raise(Translate(done.error)), rows |-> rows]
                ELSE [outcome |-> Return(PyPlain("dict", done.id)), rows |-> done.rows]

\* The body shared by add_user (user.py:48-69) and add_facility
\* (facility.py:50-71): the payload is checked for presence, decoded,
\* parsed, tried on the model constructor, then added or, with a non-zero
\* id, written over the row with that id.  The value returned is the dict
\* holding the id.  bytes.decode() raises UnicodeDecodeError, which is no
\* JSONDecodeError and is not caught.
add_profile(body, rows) ==
    CASE body.form = "empty" ->
            [outcome |-> Raise(Error("PayloadNotFound", "Missing JSON data")),
             rows |-> rows]
      [] body.form = "bytes" ->
            [outcome |-> Raise(Error("UnicodeDecodeError", "invalid start byte")),
             rows |-> rows]
      [] body.form = "text" ->
            [outcome |-> Raise(Error("PayloadMalformed", "Invalid JSON data")),
             rows |-> rows]
      [] body.form \in {"array", "extra"} ->
            [outcome |-> Raise(Error("PayloadInvalid", "Invalid parameters in JSON data")),
             rows |-> rows]
      [] OTHER ->
            LET done == IF body.id <= 0 THEN add(rows, body.name)
                        ELSE update(rows, body.id, body.name)
            IN  IF done.error # NoError
                THEN [outcome |-> Raise(Translate(done.error)), rows |-> rows]
                ELSE [outcome |-> Return(PyPlain("dict", done.id)), rows |-> done.rows]

add_user(body, db) ==
    LET done == add_profile(body, db.users)
    IN  [outcome |-> done.outcome, db |-> [db EXCEPT !.users = done.rows]]

add_facility(body, db) ==
    LET done == add_profile(body, db.facilities)
    IN  [outcome |-> done.outcome, db |-> [db EXCEPT !.facilities = done.rows]]

\* user.py:209-215
delete_user(user_id, db) ==
    LET done == delete(db.users, user_id,
                       \E link \in db.associations : link[2] = user_id)
    IN  IF done.error # NoError
        THEN [outcome |-> Raise(Translate(done.error)), db |-> db]
        ELSE [outcome |-> Return(PyPlain("dict", user_id)),
              db |-> [db EXCEPT !.users = done.rows]]

\* facility.py:91-97
delete_facility(facility_id, db) ==
    LET done == delete(db.facilities, facility_id,
                       \E link \in db.associations : link[1] = facility_id)
    IN  IF done.error # NoError
        THEN [outcome |-> Raise(Translate(done.error)), db |-> db]
        ELSE [outcome |-> Return(PyPlain("dict", facility_id)),
              db |-> [db EXCEPT !.facilities = done.rows]]

\* facility.py:131-134: no IntegrityError is caught here.
add_facility_user_association(facility_id, user_id, db) ==
    CASE db.facilities[facility_id] = Absent ->
            [outcome |-> Raise(Error("RecordNotFound", "No record with that id")),
             db |-> db]
      [] db.facilities[facility_id] # Absent /\ db.users[user_id] = Absent ->
            [outcome |-> Raise(Error("IntegrityError", "violates foreign key constraint")),
             db |-> db]
      [] OTHER ->
            [outcome |-> Return(PyPlain("dict", 0)),
             db |-> [db EXCEPT !.associations = @ \cup {<<facility_id, user_id>>}]]

PostUser == [method |-> "POST", path |-> "/user", level |-> 0]

PostFacility == [method |-> "POST", path |-> "/facility", level |-> 0]

DeleteUser == [method |-> "DELETE", path |-> "/user/1", level |-> 0]

DeleteFacility == [method |-> "DELETE", path |-> "/facility/1", level |-> 0]

PutFacilityUser == [method |-> "PUT", path |-> "/facility/1/user/1", level |-> 0]

\* The view function flask calls for the route.
handler(req, body, db) ==
    CASE req.route = PostUser -> add_user(body, db)
      [] req.route = PostFacility -> add_facility(body, db)
      [] req.route = DeleteUser -> delete_user(1, db)
      [] req.route = DeleteFacility -> delete_facility(1, db)
      [] OTHER -> add_facility_user_association(1, 1, db)

\* Endpoint.create_token of the tests: a token of the admin client.
AdminToken ==
    [present |-> TRUE, sub |-> 1, exp |-> MaxTime, signed |-> TRUE,
     text |-> "eyJ0eXAi.eyJzdWIi.c2lnbmF0"]

Call(r, h, b) ==
    [req |-> [route |-> r, content_type |-> "application/json", header |-> h,
              auth |-> NoAuth],
     body |-> b]

\* POSTs of every payload, with the admin's token and without a token.
PostCalls ==
    {Call(r, h, b) : r \in {PostUser, PostFacility}, h \in {AdminToken, NoToken},
                     b \in Payloads}

\* Requests that write, with every token: a POST that overwrites row 1, the
\* two deletes and the association.
DataCalls ==
    {Call(PostUser, h, b) :
        h \in Tokens \cup {NoToken},
        b \in [form : {"profile"}, id : {1}, name : Names]}
    \cup {Call(r, h, NoPayload) :
            r \in {DeleteUser, DeleteFacility, PutFacilityUser},
            h \in Tokens \cup {NoToken}}

(***************************************************************************)
(* refitt data select: data_select.py.  None is the string "None" where    *)
(* the other values are strings; a count that may be None is a record.     *)
(***************************************************************************)
NoCount == [none |-> TRUE, n |-> 0]

Count(n) == [none |-> FALSE, n |-> n]

\* data_select.py:134, the class attribute `limit: int = 10`.
DefaultLimit == 10

\* data_select.py:144
formats == {"ascii", "csv", "json", "excel", "html", "feather"}

\* ext_map with the Excel extension written as CSV.
ext_map_ExcelAsCsv ==
    [ext \in {".csv", ".xlsx", ".feather", ".html", ".json"} |->
        CASE ext = ".csv" -> "csv"
          [] ext = ".xlsx" -> "csv"
          [] ext = ".feather" -> "feather"
          [] ext = ".html" -> "html"
          [] OTHER -> "json"]

\* data_select.py:131-132
ext_map ==
    [ext \in {".csv", ".xlsx", ".feather", ".html", ".json"} |->
        CASE ext = ".csv" -> "csv"
          [] ext = ".xlsx" -> "excel"
          [] ext = ".feather" -> "feather"
          [] ext = ".html" -> "html"
          [] OTHER -> "json"]

\* os.path.splitext(path)[1]: from the last dot on, "" without a dot.
splitext(path) ==
    LET dots == {i \in 1..Len(path) : SubSeq(path, i, i) = "."}
    IN  IF dots = {} THEN ""
        ELSE SubSeq(path, CHOOSE i \in dots : \A j \in dots : j <= i, Len(path))

Outputs ==
    {"None", "-", "out.csv", "out.xlsx", "out.feather", "out.html", "out.json",
     "out.txt", "out"}

\* The options as given: limit is NoCount without --limit, format "None"
\* without --format, flag the one format flag given or "None".  The two
\* argparse groups are mutually exclusive (data_select.py:136, 145).
CmdLines ==
    {cl \in [limit : {NoCount} \cup {Count(n) : n \in 1..MaxLimit},
             no_limit : BOOLEAN,
             format : formats \cup {"None"},
             flag : formats \cup {"None"},
             output : Outputs,
             dry_run : BOOLEAN] :
        /\ ~(cl.no_limit /\ ~cl.limit.none)
        /\ ~(cl.format # "None" /\ cl.flag # "None")}

\* Application.from_cmdline: every entry of the argparse namespace becomes
\* an attribute of the instance.  --limit is declared without a default
\* (data_select.py:137), so the namespace holds None for it when it is not
\* given and the instance attribute hides the class attribute of line 134.
from_cmdline(cl) ==
    [limit |-> cl.limit, no_limit |-> cl.no_limit, output_format |-> cl.format,
     format_flag |-> cl.flag, output |-> cl.output, dry_run |-> cl.dry_run]

\* What run() did: `state` is "critical" when it returned at line 189,
\* "dry-run" at line 204, "written" at the end; limit is the one of params.
Ran(state, limit, output_format, output, queried, wrote) ==
    [state |-> state, limit |-> limit, output_format |-> output_format,
     output |-> output, queried |-> queried, wrote |-> wrote]

NotRun == Ran("idle", NoCount, "None", "None", FALSE, "nothing")

\* DataSelectApp.run, data_select.py:162-222.
run(self) ==
    LET limit == IF self.no_limit THEN NoCount ELSE self.limit
        flagged == IF self.format_flag # "None"
                   THEN self.format_flag ELSE self.output_format
        infer == self.output \notin {"None", "-"} /\ flagged = "None"
        file_ext == splitext(self.output)
        known == file_ext \in DOMAIN ext_map
        inferred == IF infer /\ known THEN ext_map[file_ext] ELSE flagged
        output_format == IF inferred = "None" THEN "ascii" ELSE inferred
        output == IF self.output \in {"None", "-"} THEN "stdout" ELSE self.output
    IN  IF infer /\ ~known /\ self.format_flag = "None"
        THEN Ran("critical", limit, "None", self.output, FALSE, "nothing")
        ELSE IF self.dry_run
        THEN Ran("dry-run", limit, output_format, output, FALSE, "sql")
        ELSE Ran("written", limit, output_format, output, TRUE, "data")

NoCmdLine ==
    [limit |-> NoCount, no_limit |-> FALSE, format |-> "None", flag |-> "None",
     output |-> "None", dry_run |-> FALSE]

(***************************************************************************)
(* Mail: email.py:100-364.  mime is the payload list of the MIMEMultipart  *)
(* (position 0 is the first element), payload_index the dict of the same   *)
(* name.                                                                   *)
(***************************************************************************)
\* Mail(): the null constructor, email.py:142-146.
Mail == [mime |-> <<>>, payload_index |-> [name \in {} |-> 0]]

Texts == {"Hello, world!", "Hello, other!"}

\* Paths given to attach; the first two are files that exist.
Paths == {"/tmp/a.txt", "/tmp/b.png", "/tmp/missing", "/tmp/html"}

isfile(path) == path \in {"/tmp/a.txt", "/tmp/b.png", "/tmp/html"}

Labels == {"None", "plain", "a.txt"}

\* os.path.basename(path): what follows the last slash.
basename(path) ==
    LET slashes == {i \in 1..Len(path) : SubSeq(path, i, i) = "/"}
    IN  IF slashes = {} THEN path
        ELSE SubSeq(path, (CHOOSE i \in slashes : \A j \in slashes : j <= i) + 1,
                    Len(path))

\* get_payload(loc).set_payload(value): the part at position loc, in place.
set_payload(mime, loc, value) == [mime EXCEPT ![loc + 1].payload = value]

\* setitem that attaches a new part also for a key that is in the index.
setitem_AlwaysAttaches(self, key, value) ==
    IF key \in DOMAIN self.payload_index
    THEN [self EXCEPT !.mime = Append(self.mime,
                [type |-> "text", name |-> key, payload |-> value])]
    ELSE [mime |-> Append(self.mime,
                [type |-> "text", name |-> key, payload |-> value]),
          payload_index |-> self.payload_index
                @@ (key :> Cardinality(DOMAIN self.payload_index))]

\* Mail.__setitem__, email.py:277-284.
setitem(self, key, value) ==
    IF key \in DOMAIN self.payload_index
    THEN [self EXCEPT !.mime = set_payload(self.mime, self.payload_index[key], value)]
    ELSE [mime |-> Append(self.mime,
                [type |-> "text", name |-> key, payload |-> value]),
          payload_index |-> self.payload_index
                @@ (key :> Cardinality(DOMAIN self.payload_index))]

\* Mail._attach_file, email.py:313-328.  A reserved name raises ValueError
\* and a missing file makes open() raise, both before anything is changed.
attach_file(self, path, label) ==
    LET name == IF label # "None" THEN label ELSE basename(path)
    IN  IF name \in {"plain", "html"} \/ ~isfile(path)
        THEN self
        ELSE IF name \in DOMAIN self.payload_index
        THEN [self EXCEPT !.mime = set_payload(self.mime, self.payload_index[name], path)]
        ELSE [mime |-> Append(self.mime,
                    [type |-> "application", name |-> name, payload |-> path]),
              payload_index |-> self.payload_index
                    @@ (name :> Cardinality(DOMAIN self.payload_index))]

\* Mail.__len__, email.py:354-356.
len(self) == Cardinality(DOMAIN self.payload_index)

(***************************************************************************)
(* refitt database init: init.py:52-84.                                    *)
(***************************************************************************)
\* The functions run() calls, in the order of its statements.
Steps == <<"drop_database", "init_database", "load_coredata", "load_testdata">>

\* The classes InitDatabaseApp.exceptions names (init.py:67-74).
Failures == {"RuntimeError", "DatabaseError", "ConfigurationError"}

\* Whether run() calls the i-th function under these options.
Wanted(opts, i) ==
    CASE i = 1 -> opts.drop_tables
      [] i = 2 -> TRUE
      [] i = 3 -> opts.load_coredata
      [] OTHER -> opts.load_testdata

\* next_call with init_database called only when tables were dropped.
next_call_InitOnDrop(opts, i) ==
    LET later == {j \in i..Len(Steps) : Wanted(opts, j) /\ (j = 2 => opts.drop_tables)}
    IN  IF later = {} THEN 0 ELSE CHOOSE j \in later : \A k \in later : j <= k

\* The function run() calls after the (i-1)-th statement, 0 at the end.
next_call(opts, i) ==
    LET later == {j \in i..Len(Steps) : Wanted(opts, j)}
    IN  IF later = {} THEN 0 ELSE CHOOSE j \in later : \A k \in later : j <= k

(***************************************************************************)
(* DatabaseClient and SSHTunnel: client.py.                                *)
(***************************************************************************)
ServerAddress(host, port) == [host |-> host, port |-> port]

Addresses ==
    {ServerAddress("db.example.org", 5432), ServerAddress("localhost", 5432),
     ServerAddress("gateway.example.org", 22)}

\* The default of use_tunnel's `local`, client.py:296.
DefaultLocal == ServerAddress("localhost", 54320)

NoAddress == ServerAddress("", 0)

NoTunnel == [ssh |-> NoAddress, remote |-> NoAddress, local |-> NoAddress,
             forwarder |-> "none"]

NoClient == [server |-> NoAddress, tunnel |-> NoTunnel, engine |-> NoAddress,
             connected |-> FALSE, made |-> FALSE]

\* DatabaseClient.__init__, client.py:196-202.
DatabaseClient(server) ==
    [server |-> server, tunnel |-> NoTunnel, engine |-> NoAddress,
     connected |-> FALSE, made |-> TRUE]

\* SSHTunnel.__init__, client.py:70-87.
SSHTunnel(ssh, remote, local) ==
    [ssh |-> ssh, remote |-> remote, local |-> local, forwarder |-> "built"]

\* The tunnel setter that keeps the server address.
set_tunnel_KeepsServer(self, other) == [self EXCEPT !.tunnel = other]

\* The tunnel setter, client.py:261-268.
set_tunnel(self, other) == [self EXCEPT !.tunnel = other, !.server = other.local]

\* DatabaseClient.use_tunnel, client.py:295-301.  forwarder.start() raises
\* when the tunnel cannot be opened; the tunnel is assigned by then.
use_tunnel(self, ssh, local, opened) ==
    LET set == set_tunnel(self, SSHTunnel(ssh, self.server, local))
    IN  IF opened THEN [set EXCEPT !.tunnel.forwarder = "started"] ELSE set

\* DatabaseClient.connect, client.py:270-276: the engine is created for the
\* host and port of self.server.
connect(self) == [self EXCEPT !.engine = self.server, !.connected = TRUE]

\* DatabaseClient.close, client.py:278-284: the engine is disposed of and
\* kept, the forwarder of a tunnel is stopped.
close(self) ==
    [self EXCEPT !.connected = FALSE,
                 !.tunnel.forwarder = IF self.tunnel = NoTunnel THEN "none" ELSE "stopped"]

NoRequest ==
    [route |-> [method |-> "", path |-> "", level |-> 0], content_type |-> "",
     header |-> NoToken, auth |-> NoAuth]

NotCalled == [kind |-> "none", value |-> NoValue, error |-> NoError]

Init ==
    /\ request = NoRequest
    /\ outcome = NotCalled
    /\ result = Blank("idle", NoError)
    /\ log = <<>>
    /\ trace = <<>>
    /\ revoked = {}
    /\ now = 0
    /\ secret = [c \in ClientIds |-> hashed(c)]
    /\ generated = Cardinality(ClientIds)
    /\ payload = NoPayload
    /\ users = [id \in 1..MaxRecords |-> IF id = 1 THEN "a" ELSE Absent]
    /\ facilities = [id \in 1..MaxRecords |-> IF id = 1 THEN "a" ELSE Absent]
    /\ associations = {}
    /\ cmdline = NoCmdLine
    /\ app = NotRun
    /\ mail = Mail
    /\ options = [drop_tables |-> FALSE, load_coredata |-> FALSE, load_testdata |-> FALSE]
    /\ calls = <<>>
    /\ pc = "idle"
    /\ database = NoClient

\* A request to a route declared with endpoint('application/json').
FormatJson ==
    \E req \in Requests :
      \E behaviour \in IF Reaches(req, revoked, now) THEN Behaviours ELSE {NotCalled} :
        /\ req.content_type = "application/json"
        /\ LET called == route(req, behaviour, revoked, now)
               done == format_json(req, called.outcome)
           IN  /\ request' = req
               /\ outcome' = called.outcome
               /\ trace' = called.trace
               /\ result' = done.result
               /\ log' = done.logged
        /\ UNCHANGED <<revoked, now, secret, generated>>
        /\ UNCHANGED nonweb

\* A request to a route declared with endpoint('application/octet-stream').
FormatStream ==
    \E req \in Requests :
      \E behaviour \in IF Reaches(req, revoked, now) THEN Behaviours ELSE {NotCalled} :
        /\ req.content_type = "application/octet-stream"
        /\ LET called == route(req, behaviour, revoked, now)
               done == format_stream(req, called.outcome)
           IN  /\ request' = req
               /\ outcome' = called.outcome
               /\ trace' = called.trace
               /\ result' = done.result
               /\ log' = done.logged
        /\ UNCHANGED <<revoked, now, secret, generated>>
        /\ UNCHANGED nonweb

\* A request to a route declared with any other content type
\* (response.py:167-173): the route is not called and nothing is logged.
ContentTypeNotImplemented ==
    \E req \in Requests :
        /\ req.content_type \notin {"application/json", "application/octet-stream"}
        /\ request' = req
        /\ outcome' = NotCalled
        /\ trace' = <<>>
        /\ result' = content_type_not_implemented(req.content_type)
        /\ log' = <<>>
        /\ UNCHANGED <<revoked, now, secret, generated>>
        /\ UNCHANGED nonweb

\* A request with a key:secret pair to the login route.
Login ==
    \E req \in LoginRequests :
      \E behaviour \in IF authenticate(req.auth, secret, revoked) = NoError
                        THEN Behaviours ELSE {NotCalled} :
        /\ LET called == login_route(req, behaviour, secret, revoked)
               done == format_json(req, called.outcome)
           IN  /\ request' = req
               /\ outcome' = called.outcome
               /\ trace' = called.trace
               /\ result' = done.result
               /\ log' = done.logged
        /\ UNCHANGED <<revoked, now, secret, generated>>
        /\ UNCHANGED nonweb

\* Client.new_secret: a fresh secret is generated and its hash replaces the
\* one stored for the client.
NewSecret ==
    \E c \in ClientIds :
        /\ generated < MaxSecrets
        /\ generated' = generated + 1
        /\ secret' = [secret EXCEPT ![c] = hashed(generated + 1)]
        /\ UNCHANGED <<request, outcome, result, log, trace, revoked, now>>
        /\ UNCHANGED nonweb

\* Secret.generate() alone (test_auth_secret_invalid): the value is handed
\* out and stored for no client.
GenerateSecret ==
    /\ generated < MaxSecrets
    /\ generated' = generated + 1
    /\ UNCHANGED <<request, outcome, result, log, trace, revoked, now, secret>>
    /\ UNCHANGED nonweb

\* temp_revoke_access(client.id) of the integration tests: the flag is set
\* for the duration of the block and cleared afterwards.
RevokeAccess ==
    \E c \in ClientIds \ revoked :
        /\ revoked' = revoked \cup {c}
        /\ UNCHANGED <<request, outcome, result, log, trace, now, secret, generated>>
        /\ UNCHANGED nonweb

RestoreAccess ==
    \E c \in revoked :
        /\ revoked' = revoked \ {c}
        /\ UNCHANGED <<request, outcome, result, log, trace, now, secret, generated>>
        /\ UNCHANGED nonweb

\* Time passes.
Tick ==
    /\ now < MaxTime
    /\ now' = now + 1
    /\ UNCHANGED <<request, outcome, result, log, trace, revoked, secret, generated>>
    /\ UNCHANGED nonweb

\* Requests with bearer tokens and with key:secret pairs, revocation and
\* time, over the secrets stored at the start.
Next ==
    \/ FormatStream
    \/ FormatJson
    \/ ContentTypeNotImplemented
    \/ Login
    \/ RevokeAccess
    \/ RestoreAccess
    \/ Tick

Spec == Init /\ [][Next]_vars

\* The login route while secrets are generated and replaced.
NextLogin ==
    \/ Login
    \/ NewSecret
    \/ GenerateSecret
    \/ RevokeAccess
    \/ RestoreAccess

SpecLogin == Init /\ [][NextLogin]_vars

\* Serve with the view function called before the checks of the decorators.
Serve_WritesAlways(call, db, flags, time) ==
    LET does == handler(call.req, call.body, db)
        called == route(call.req, does.outcome, flags, time)
        done == format_json(call.req, called.outcome)
    IN  [outcome |-> called.outcome, trace |-> called.trace,
         result |-> done.result, logged |-> done.logged,
         db |-> does.db]

\* One request to a data route: the view function runs when both checks
\* pass, and only then are the tables written.
Serve(call, db, flags, time) ==
    LET does == handler(call.req, call.body, db)
        called == route(call.req, does.outcome, flags, time)
        ran == called.trace # <<>> /\ called.trace[Len(called.trace)] = "handler"
        done == format_json(call.req, called.outcome)
    IN  [outcome |-> called.outcome, trace |-> called.trace,
         result |-> done.result, logged |-> done.logged,
         db |-> IF ran THEN does.db ELSE db]

Tables ==
    [users |-> users, facilities |-> facilities, associations |-> associations]

Post ==
    \E call \in PostCalls :
        LET served == Serve(call, Tables, revoked, now)
        IN  /\ request' = call.req
            /\ payload' = call.body
            /\ outcome' = served.outcome
            /\ trace' = served.trace
            /\ result' = served.result
            /\ log' = served.logged
            /\ users' = served.db.users
            /\ facilities' = served.db.facilities
            /\ associations' = served.db.associations
            /\ UNCHANGED <<revoked, now, secret, generated>>
            /\ UNCHANGED appvars

Handle ==
    \E call \in DataCalls :
        LET served == Serve(call, Tables, revoked, now)
        IN  /\ request' = call.req
            /\ payload' = call.body
            /\ outcome' = served.outcome
            /\ trace' = served.trace
            /\ result' = served.result
            /\ log' = served.logged
            /\ users' = served.db.users
            /\ facilities' = served.db.facilities
            /\ associations' = served.db.associations
            /\ UNCHANGED <<revoked, now, secret, generated>>
            /\ UNCHANGED appvars

\* A request by the admin whose view function raises an error of any class,
\* those derived from the taxonomy included.
Dispatch ==
    \E r \in Routes, ct \in {"application/json", "application/octet-stream"},
       kind \in ErrorKinds \cup SubKinds, msg \in Messages :
        LET req == [route |-> r, content_type |-> ct, header |-> AdminToken,
                    auth |-> NoAuth]
            called == route(req, Raise(Error(kind, msg)), revoked, now)
            done == IF ct = "application/json"
                    THEN format_json(req, called.outcome)
                    ELSE format_stream(req, called.outcome)
        IN  /\ request' = req
            /\ outcome' = called.outcome
            /\ trace' = called.trace
            /\ result' = done.result
            /\ log' = done.logged
            /\ UNCHANGED <<revoked, now, secret, generated>>
            /\ UNCHANGED nonweb

NextKinds == Dispatch

SpecKinds == Init /\ [][NextKinds]_vars

\* `refitt data select` is run with a command line.
RunSelect ==
    \E cl \in CmdLines :
        /\ cmdline' = cl
        /\ app' = run(from_cmdline(cl))
        /\ UNCHANGED <<webvars, datavars, mail, initvars, database>>

NextSelect == RunSelect

SpecSelect == Init /\ [][NextSelect]_vars

(***************************************************************************)
(* Mail, refitt database init and DatabaseClient                           *)
(***************************************************************************)
\* mail.text = value
SetText ==
    \E value \in Texts :
        /\ mail' = setitem(mail, "plain", value)
        /\ UNCHANGED <<webvars, datavars, selectvars, initvars, database>>

\* mail.html = value
SetHtml ==
    \E value \in Texts :
        /\ mail' = setitem(mail, "html", value)
        /\ UNCHANGED <<webvars, datavars, selectvars, initvars, database>>

\* mail.attach(path) and mail.attach({label: path})
AttachFile ==
    \E path \in Paths, label \in Labels :
        /\ mail' = attach_file(mail, path, label)
        /\ UNCHANGED <<webvars, datavars, selectvars, initvars, database>>

NextMail == SetText \/ SetHtml \/ AttachFile

SpecMail == Init /\ [][NextMail]_vars

\* run() is entered with the parsed options.
StartInit ==
    /\ pc \in {"idle", "done", "failed"}
    /\ \E opts \in [drop_tables : BOOLEAN, load_coredata : BOOLEAN,
                    load_testdata : BOOLEAN] :
            options' = opts
    /\ calls' = <<>>
    /\ pc' = "running"
    /\ UNCHANGED <<webvars, datavars, selectvars, mail, database>>

\* The index in Steps of the function called last, 0 before the first call.
Last ==
    IF calls = <<>> THEN 0
    ELSE CHOOSE i \in 1..Len(Steps) : Steps[i] = calls[Len(calls)].fn

\* run() calls its next function, or returns when there is none.
CallStep ==
    /\ pc = "running"
    /\ LET i == next_call(options, Last + 1)
       IN  IF i = 0
           THEN calls' = calls /\ pc' = "done"
           ELSE calls' = Append(calls, [ev |-> "call", fn |-> Steps[i], error |-> ""])
                /\ pc' = "called"
    /\ UNCHANGED <<webvars, datavars, selectvars, mail, options, database>>

\* The function called returns.
ReturnStep ==
    /\ pc = "called"
    /\ calls' = Append(calls, [ev |-> "return", fn |-> calls[Len(calls)].fn,
                               error |-> ""])
    /\ pc' = "running"
    /\ UNCHANGED <<webvars, datavars, selectvars, mail, options, database>>

\* The function called raises; run() has no handler and the error leaves it.
RaiseStep ==
    /\ pc = "called"
    /\ \E kind \in Failures :
        calls' = Append(calls, [ev |-> "raise", fn |-> calls[Len(calls)].fn,
                                error |-> kind])
    /\ pc' = "failed"
    /\ UNCHANGED <<webvars, datavars, selectvars, mail, options, database>>

NextInit == StartInit \/ CallStep \/ ReturnStep \/ RaiseStep

SpecInit == Init /\ [][NextInit]_vars

\* DatabaseClient(server, auth, database)
Construct ==
    /\ ~database.made
    /\ \E server \in Addresses : database' = DatabaseClient(server)
    /\ UNCHANGED <<webvars, datavars, selectvars, mail, initvars>>

\* client.use_tunnel(ssh, auth, local)
UseTunnel ==
    /\ database.made
    /\ \E ssh \in Addresses, local \in {DefaultLocal, ServerAddress("localhost", 5432)},
          opened \in BOOLEAN :
        database' = use_tunnel(database, ssh, local, opened)
    /\ UNCHANGED <<webvars, datavars, selectvars, mail, initvars>>

\* client.connect()
Connect ==
    /\ database.made
    /\ database' = connect(database)
    /\ UNCHANGED <<webvars, datavars, selectvars, mail, initvars>>

\* client.close()
Close ==
    /\ database.made /\ database.engine # NoAddress
    /\ database' = close(database)
    /\ UNCHANGED <<webvars, datavars, selectvars, mail, initvars>>

NextTunnel == Construct \/ UseTunnel \/ Connect \/ Close

SpecTunnel == Init /\ [][NextTunnel]_vars

\* POST /user and POST /facility over every payload.
NextPost == Post

SpecPost == Init /\ [][NextPost]_vars

\* The writing routes under every token, with revocation and time.
NextData ==
    \/ Handle
    \/ RevokeAccess
    \/ RestoreAccess
    \/ Tick

SpecData == Init /\ [][NextData]_vars

(***************************************************************************)
(* Properties                                                              *)
(***************************************************************************)
JsonMode == request.content_type = "application/json"

StreamMode == request.content_type = "application/octet-stream"

\* The route raised an error, i.e. an instance of a subclass of Exception.
RaisedError == outcome.kind = "raise" /\ IsException(outcome.error.type)

HandlerRan == trace # <<>> /\ trace[Len(trace)] = "handler"

\* The request went to a route declared @authenticated @authorization.
Protected == request.route \in Routes /\ (JsonMode \/ StreamMode)

HasBody(status, fields) ==
    /\ result.kind = "response"
    /\ result.status = status
    /\ result.body = fields

\* C1: in JSON mode, an error of a taxonomy kind raised by the handler or by
\* the auth middleware is answered with the status RESPONSE_MAP gives for its
\* kind, Status "Error" and the error's string form as Message; an error of
\* any other kind with 500, Status "Critical" and its string form.
C1_ErrorMapping ==
    (JsonMode /\ RaisedError) =>
        IF outcome.error.type \in TaxonomyKinds
        THEN HasBody(RESPONSE_MAP[outcome.error.type],
                     [Status |-> "Error", Message |-> str(outcome.error)])
        ELSE HasBody(500, [Status |-> "Critical", Message |-> str(outcome.error)])

C1_Witness ==
    /\ JsonMode /\ HandlerRan
    /\ outcome.kind = "raise" /\ outcome.error.type = "PayloadNotFound"
    /\ result.kind = "response" /\ result.status = 400

\* C2: in JSON mode, a handler call that returns a value v is answered with
\* status 200 and the body {Status: "Success", Response: v}, without Message.
C2_SuccessEnvelope ==
    (JsonMode /\ outcome.kind = "return") =>
        HasBody(200, [Status |-> "Success", Response |-> json_dumps(outcome.value)])

\* C3: in JSON mode and in streaming mode, whatever the handler returns and
\* whatever error it raises, the wrapper returns a response object: no error
\* leaves the wrapper and the wrapper never ends without a response.
C3_AlwaysResponds ==
    ((JsonMode \/ StreamMode) /\ (outcome.kind = "return" \/ RaisedError)) =>
        result.kind = "response"

\* C4: in streaming mode, when the handler returns a (headers, stream) pair
\* the wrapper returns a binary response with status 200 whose body is that
\* stream and whose headers include every pair of the handler's headers.
C4_StreamSuccess ==
    (StreamMode /\ outcome.kind = "return" /\ outcome.value.t = "pair") =>
        /\ result.kind = "response"
        /\ result.status = 200
        /\ result.mimetype = "application/octet-stream"
        /\ result.stream = outcome.value.n
        /\ \A k \in DOMAIN outcome.value.headers :
              /\ k \in DOMAIN result.headers
              /\ result.headers[k] = outcome.value.headers[k]

\* C5: for an error raised by the route, the streaming wrapper returns the
\* status, JSON body and application/json content type that the JSON wrapper
\* returns for the same error.
C5_StreamErrorAsJson ==
    (StreamMode /\ RaisedError) =>
        LET json == format_json(request, outcome).result
        IN  /\ result.kind = "response" /\ json.kind = "response"
            /\ result.status = json.status
            /\ result.body = json.body
            /\ result.mimetype = "application/json"
            /\ json.mimetype = "application/json"

C5_Witness ==
    /\ StreamMode /\ HandlerRan
    /\ outcome.kind = "raise" /\ outcome.error.type = "IntegrityError"
    /\ result.kind = "response" /\ result.status = 500

\* C6: every response of a JSON-mode endpoint has a Status among Success,
\* Error, Critical; its HTTP status is 200 exactly when Status is Success,
\* it has a Response field exactly when Status is Success and a Message
\* field exactly when Status is Error or Critical.
C6_EnvelopeShape ==
    (JsonMode /\ result.kind = "response") =>
        /\ "Status" \in DOMAIN result.body
        /\ result.body["Status"] \in {"Success", "Error", "Critical"}
        /\ (result.status = 200) <=> (result.body["Status"] = "Success")
        /\ ("Response" \in DOMAIN result.body) <=> (result.body["Status"] = "Success")
        /\ ("Message" \in DOMAIN result.body)
              <=> (result.body["Status"] \in {"Error", "Critical"})

\* C7: every invocation of a JSON-mode or streaming-mode endpoint, whether
\* the handler returns or raises, emits exactly one log record, with the
\* request's method and path and the HTTP status of the response returned.
C7_LoggedOnce ==
    ((JsonMode \/ StreamMode) /\ (outcome.kind = "return" \/ RaisedError)) =>
        /\ Len(log) = 1
        /\ log[1].method = request.route.method
        /\ log[1].path = request.route.path
        /\ result.kind = "response"
        /\ log[1].status = result.status

\* C8: the taxonomy holds exactly the fifteen kinds with the codes listed,
\* and the status answered for a taxonomy error is the one of the table.
C8_Codes ==
    [kind \in {"TokenNotFound", "AuthenticationNotFound", "TokenInvalid",
               "AuthenticationInvalid", "PermissionDenied", "TokenExpired",
               "RecordNotFound", "NotFound", "PayloadNotFound",
               "PayloadMalformed", "PayloadInvalid", "ConstraintViolation",
               "ParameterInvalid", "NotImplementedError", "PayloadTooLarge"} |->
        CASE kind \in {"TokenNotFound", "AuthenticationNotFound", "TokenInvalid",
                       "AuthenticationInvalid"} -> 403
          [] kind \in {"PermissionDenied", "TokenExpired"} -> 401
          [] kind \in {"RecordNotFound", "NotFound"} -> 404
          [] kind \in {"PayloadNotFound", "PayloadMalformed", "PayloadInvalid",
                       "ConstraintViolation", "ParameterInvalid"} -> 400
          [] kind = "NotImplementedError" -> 501
          [] OTHER -> 413]

C8_TaxonomyTable ==
    /\ Cardinality(DOMAIN RESPONSE_MAP) = 15
    /\ RESPONSE_MAP = C8_Codes
    /\ (outcome.kind = "raise" /\ outcome.error.type \in DOMAIN C8_Codes
            /\ result.kind = "response")
          => result.status = C8_Codes[outcome.error.type]

C8_Witness ==
    /\ StreamMode /\ HandlerRan
    /\ outcome.kind = "raise" /\ outcome.error.type = "PayloadTooLarge"
    /\ result.kind = "response" /\ result.status = 413

\* C9: on a route whose content type is neither application/json nor
\* application/octet-stream every request gets 500 with Status "Critical"
\* and the message naming the content type, and neither the handler nor its
\* auth middleware is called.
C9_UnknownContentType ==
    (request # NoRequest /\ ~JsonMode /\ ~StreamMode) =>
        /\ HasBody(500, [Status |-> "Critical",
                         Message |-> "Content-type not defined: '"
                                        \o request.content_type \o "'"])
        /\ trace = <<>>
        /\ outcome = NotCalled

C9_Witness ==
    /\ request.content_type = "text/html"
    /\ request.header.present /\ request.header.signed /\ request.header.sub = 1
    /\ request.header.sub \notin revoked /\ now <= request.header.exp
    /\ result.kind = "response" /\ result.status = 500

\* C10: a request without an Authorization header to a protected route is
\* answered 403 with the body {Status: "Error", Message: 'Expected
\* "Authorization: Bearer <token>" in header'}.
C10_TokenMissing ==
    (Protected /\ ~request.header.present) =>
        /\ HasBody(403, [Status |-> "Error",
                         Message |-> "Expected \"Authorization: Bearer <token>\" in header"])
        /\ trace = <<"authenticated">>

C10_Witness ==
    /\ JsonMode /\ ~request.header.present
    /\ request.route.path = "/facility/1"
    /\ result.kind = "response" /\ result.status = 403

(***************************************************************************)
(* Claims about the token and credential checks.  What a request gets      *)
(* depends on the revocation flags, the clock and the stored secrets at    *)
(* the time it is served, and these change afterwards; such claims are     *)
(* stated over the step that serves the request.                           *)
(***************************************************************************)
\* A step that serves a request: every other step changes one of these.
Served == UNCHANGED <<revoked, now, secret, generated>>

\* The request went to the credential login route.
LoginMode == request.route = LoginRoute /\ request # NoRequest

\* The bearer token verifies, is not expired at `time` and names a client.
ValidToken(header, time) ==
    /\ header.present /\ header.signed
    /\ header.exp >= time
    /\ header.sub \in ClientIds

\* The key is a client's and the secret is the one stored for that client.
MatchingPair(auth, store) ==
    /\ auth.present
    /\ \E c \in ClientIds : ClientKey[c] = auth.key /\ store[c] = hashed(auth.secret)

\* The client a request authenticates as.
Subject(req) ==
    IF req.route = LoginRoute
    THEN {c \in ClientIds : req.auth.present /\ ClientKey[c] = req.auth.key}
    ELSE {c \in ClientIds : req.header.present /\ req.header.sub = c}

\* The previews test_token_invalid and the rule "first 3, '...', last 3"
\* give for the tokens that do not verify.
C11_Previews ==
    [t \in BadTokens |-> IF t = "bad-token" THEN "bad...ken" ELSE "abc...bcd"]

\* C11: a request to a protected route whose bearer token does not verify
\* is answered 403 with Status "Error" and the Message "Token invalid:
\* '<first 3>...<last 3>'", and nothing else of the token.
C11_TokenInvalid ==
    (Protected /\ request.header.present /\ ~request.header.signed) =>
        /\ HasBody(403, [Status |-> "Error",
                         Message |-> "Token invalid: '"
                                        \o C11_Previews[request.header.text]
                                        \o "'"])
        /\ ~HandlerRan

C11_Witness ==
    /\ Protected /\ request.header.text = "bad-token"
    /\ result.kind = "response"
    /\ result.body = [Status |-> "Error", Message |-> "Token invalid: 'bad...ken'"]

\* C12: a request to a protected route whose bearer token verifies but
\* expired before the time of the request is answered 401 with Status
\* "Error" and Message "Token expired", and the handler is not invoked.
C12_TokenExpired ==
    [][(Served /\ Protected' /\ request'.header.present
            /\ request'.header.signed /\ request'.header.exp < now) =>
        (/\ HasBody(401, [Status |-> "Error", Message |-> "Token expired"])
         /\ ~HandlerRan)']_vars

C12_Witness ==
    /\ Protected /\ request.header.signed /\ request.header.exp < now
    /\ request.header.sub = 1 /\ 1 \notin revoked
    /\ result.kind = "response" /\ result.status = 401
    /\ trace = <<"authenticated">>

\* C13: while a client's revocation flag is set, a request that
\* authenticates as that client with a valid unexpired token or with a
\* matching key and secret is answered 401 with exactly the body {Status:
\* "Error", Message: "Access has been revoked"}.
C13_AccessRevoked ==
    [][(/\ Served
        /\ \/ Protected' /\ ValidToken(request'.header, now)
           \/ LoginMode' /\ MatchingPair(request'.auth, secret)
        /\ Subject(request') \subseteq revoked
        /\ Subject(request') # {}) =>
        (/\ HasBody(401, [Status |-> "Error",
                          Message |-> "Access has been revoked"])
         /\ ~HandlerRan)']_vars

C13_Witness ==
    /\ LoginMode /\ MatchingPair(request.auth, secret)
    /\ Subject(request) = {2} /\ 2 \in revoked
    /\ result.kind = "response" /\ result.status = 401
    /\ result.body.Message = "Access has been revoked"

\* C14: the revocation flag is read at every request.  Whatever requests
\* and flag changes came before, a request with a valid unexpired token
\* does not reach the handler while its client's flag is set, and reaches
\* it (the level allowing) whenever the flag is clear, also after it was
\* set and cleared again.
C14_FlagConsultedAfresh ==
    [][(Served /\ Protected' /\ ValidToken(request'.header, now)) =>
        /\ (/\ request.header.sub \in revoked => ~HandlerRan
            /\ (/\ request.header.sub \notin revoked
                /\ ClientLevel[request.header.sub] <= request.route.level)
                   => HandlerRan)'
        \* the same token again, after the flag was set or cleared
        /\ (request' = request /\ HandlerRan /\ request.header.sub \in revoked)
                => ~HandlerRan'
        /\ (/\ request' = request /\ ~HandlerRan
            /\ result.kind = "response"
            /\ result.body = [Status |-> "Error",
                              Message |-> "Access has been revoked"]
            /\ request.header.sub \notin revoked
            /\ ClientLevel[request.header.sub] <= request.route.level)
                => HandlerRan']_vars

C14_Witness ==
    /\ Protected /\ ValidToken(request.header, now)
    /\ request.header.exp = MaxTime /\ now = MaxTime
    /\ request.header.sub = 1 /\ 1 \in revoked
    /\ result.kind = "response" /\ result.status = 401
    /\ ~HandlerRan

AuthenticationErrors ==
    {"TokenNotFound", "TokenInvalid", "TokenExpired", "RecordNotFound",
     "PermissionDenied"}

\* C16: within a request to a protected route the steps run in the order
\* authentication, authorization, handler body; authorization runs only
\* once authentication has resolved a client, the handler body runs at most
\* once and only after both, and a failed check is the last step.
C16_StepOrder ==
    Protected =>
        /\ trace \in {<<"authenticated">>,
                      <<"authenticated", "authorization">>,
                      <<"authenticated", "authorization", "handler">>}
        /\ Len(trace) >= 2 =>
                /\ request.header.present /\ request.header.signed
                /\ request.header.sub \in ClientIds
        /\ Len(trace) = 1 =>
                /\ outcome.kind = "raise"
                /\ outcome.error.type \in AuthenticationErrors
        /\ Len(trace) = 2 =>
                /\ outcome.kind = "raise"
                /\ outcome.error.type = "PermissionDenied"
        /\ Cardinality({i \in DOMAIN trace : trace[i] = "handler"}) <= 1

C16_Witness ==
    /\ Protected /\ request.route.path = "/user"
    /\ trace = <<"authenticated", "authorization", "handler">>
    /\ outcome.kind = "return"

KeyOwner(key) == {c \in ClientIds : ClientKey[c] = key}

\* C18: on the login route a request without a key:secret pair gets 403
\* and 'Missing key:secret in header', one whose key is no client's gets
\* 403 and 'Client key invalid', and one whose key is a client's but whose
\* secret does not verify gets 403 and 'Client secret invalid'.
C18_LoginFailures ==
    [][(Served /\ LoginMode') =>
        (/\ ~request.auth.present =>
                HasBody(403, [Status |-> "Error",
                              Message |-> "Missing key:secret in header"])
         /\ (request.auth.present /\ KeyOwner(request.auth.key) = {}) =>
                HasBody(403, [Status |-> "Error",
                              Message |-> "Client key invalid"])
         /\ (/\ request.auth.present /\ KeyOwner(request.auth.key) # {}
             /\ ~MatchingPair(request.auth, secret)) =>
                HasBody(403, [Status |-> "Error",
                              Message |-> "Client secret invalid"])
         /\ ~MatchingPair(request.auth, secret) => ~HandlerRan)']_vars

C18_Witness ==
    /\ LoginMode /\ request.auth.present /\ request.auth.key = "my-key"
    /\ result.kind = "response" /\ result.status = 403
    /\ result.body.Message = "Client key invalid"

\* C19: through any sequence of regenerations at most one secret verifies
\* for a client.  A regeneration stores a secret never handed out before,
\* so the previous one stops verifying; a login with a client's key reaches
\* the handler only with the secret stored for that client at that time
\* and otherwise fails with 'Client secret invalid', also for a generated
\* secret that was stored for nobody.
C19_OneActiveSecret ==
    [][/\ \A c \in ClientIds :
            /\ Cardinality({s \in 1..MaxSecrets : hashed(s) = secret'[c]}) <= 1
            /\ secret'[c] # secret[c] =>
                /\ secret'[c] = hashed(generated')
                /\ \A s \in 1..generated : hashed(s) # secret'[c]
       /\ (/\ Served /\ LoginMode' /\ request'.auth.present
           /\ KeyOwner(request'.auth.key) # {}) =>
            (/\ HandlerRan => MatchingPair(request.auth, secret)
             /\ (/\ MatchingPair(request.auth, secret)
                 /\ KeyOwner(request.auth.key) \cap revoked = {}) => HandlerRan
             /\ ~MatchingPair(request.auth, secret) =>
                    /\ outcome.kind = "raise"
                    /\ outcome.error.type = "AuthenticationInvalid"
                    /\ HasBody(403, [Status |-> "Error",
                                     Message |-> "Client secret invalid"]))'
      ]_vars

\* The login of test_auth_secret_invalid after a regeneration: the secret
\* client 1 started with no longer verifies.
C19_Witness ==
    /\ LoginMode /\ request.auth.present
    /\ request.auth.key = ClientKey[1] /\ request.auth.secret = 1
    /\ secret[1] = hashed(3)
    /\ result.kind = "response" /\ result.status = 403
    /\ result.body.Message = "Client secret invalid"

\* C20: the handler body of a protected route runs only for a request
\* whose token verifies, is not expired at the time of the request and has
\* an existing client as subject; a verifying, unexpired token whose
\* subject is no client does not reach the handler and is answered with an
\* error envelope, never with Status "Success".
C20_ValidTokenOnly ==
    [][(Served /\ Protected') =>
        /\ HandlerRan' => ValidToken(request'.header, now)
        /\ (/\ request'.header.present /\ request'.header.signed
            /\ request'.header.exp >= now
            /\ request'.header.sub \notin ClientIds) =>
            (/\ ~HandlerRan
             /\ result.kind = "response"
             /\ result.status >= 400
             /\ result.body.Status \in {"Error", "Critical"}
             /\ "Message" \in DOMAIN result.body
             /\ "Response" \notin DOMAIN result.body)']_vars

C20_Witness ==
    /\ Protected /\ request.header.signed /\ request.header.sub = 3
    /\ request.header.exp >= now
    /\ trace = <<"authenticated">>
    /\ result.kind = "response" /\ result.status = 404
    /\ result.body.Status = "Error"

(***************************************************************************)
(* Claims about the data routes.                                           *)
(***************************************************************************)
\* The request passes both checks of the decorators.
Authorized(req, flags, time) ==
    /\ ValidToken(req.header, time)
    /\ req.header.sub \notin flags
    /\ ClientLevel[req.header.sub] <= req.route.level

\* The status the claims of the specification give for a request to a
\* writing route, from the request, the payload, the tables, the flags and
\* the clock alone.
C21_Status(req, body, db, flags, time) ==
    CASE ~req.header.present -> 403
      [] req.header.present /\ ~req.header.signed -> 403
      [] req.header.present /\ req.header.signed /\ req.header.exp < time -> 401
      [] req.header.present /\ req.header.signed /\ req.header.exp >= time
            /\ req.header.sub \notin ClientIds -> 404
      [] ValidToken(req.header, time) /\ ~Authorized(req, flags, time) -> 401
      [] OTHER ->
            CASE req.route = PostUser ->
                    IF db.users[body.id] = Absent THEN 404
                    ELSE IF \E j \in DOMAIN db.users :
                                j # body.id /\ db.users[j] = body.name
                    THEN 400 ELSE 200
              [] req.route = DeleteUser ->
                    IF db.users[1] = Absent THEN 404
                    ELSE IF <<1, 1>> \in db.associations THEN 400 ELSE 200
              [] req.route = DeleteFacility ->
                    IF db.facilities[1] = Absent THEN 404
                    ELSE IF <<1, 1>> \in db.associations THEN 400 ELSE 200
              [] OTHER ->
                    IF db.facilities[1] = Absent THEN 404
                    ELSE IF db.users[1] = Absent THEN 500 ELSE 200

\* C21: the status of a response is a function of the request, its
\* payload, the tables, the revocation flags and the clock: whatever was
\* served before, the same request against the same state gets the same
\* status.
C21_SameStatus ==
    [][(Served /\ request' \in {call.req : call \in DataCalls}) =>
        /\ result'.kind = "response"
        /\ result'.status = C21_Status(request', payload', Tables, revoked, now)]_vars

\* The association is put a second time, after other requests: 200 again.
C21_Witness ==
    /\ request.route = PutFacilityUser /\ Authorized(request, revoked, now)
    /\ associations = {<<1, 1>>} /\ users[1] = "b"
    /\ result.kind = "response" /\ result.status = 200

\* The rows of the table a POST writes to, and of the other one.
Written(req, u, f) == IF req.route = PostUser THEN u ELSE f

Untouched(req, u, f) == IF req.route = PostUser THEN f ELSE u

\* C22: a POST to /user or /facility by the admin with a profile the model
\* accepts returns 200, Status "Success" and the id of the row written.
\* Without an id, or with a null or zero id, exactly one row is added and
\* its id returned; with the id of an existing row that row is overwritten,
\* no row is added and that id is returned.
C22_PostWrites ==
    [][(/\ request'.route \in {PostUser, PostFacility}
        /\ request'.header = AdminToken
        /\ payload'.form = "profile"
        /\ ~\E j \in 1..MaxRecords :
                /\ j # payload'.id
                /\ Written(request', users, facilities)[j] = payload'.name
        /\ payload'.id > 0 =>
                Written(request', users, facilities)[payload'.id] # Absent) =>
        LET old == Written(request', users, facilities)
            new == Written(request', users', facilities')
        IN  /\ result'.kind = "response" /\ result'.status = 200
            /\ DOMAIN result'.body = {"Status", "Response"}
            /\ result'.body.Status = "Success"
            /\ result'.body.Response.j = "object"
            /\ Untouched(request', users', facilities')
                    = Untouched(request', users, facilities)
            /\ associations' = associations
            /\ payload'.id <= 0 =>
                \E id \in 1..MaxRecords :
                    /\ old[id] = Absent
                    /\ new = [old EXCEPT ![id] = payload'.name]
                    /\ result'.body.Response.n = id
            /\ payload'.id > 0 =>
                /\ new = [old EXCEPT ![payload'.id] = payload'.name]
                /\ result'.body.Response.n = payload'.id]_vars

C22_Witness ==
    /\ request.route = PostFacility /\ request.header = AdminToken
    /\ payload = [form |-> "profile", id |-> 0, name |-> "b"]
    /\ facilities[2] = "b" /\ users[1] = "b"
    /\ result.kind = "response" /\ result.status = 200
    /\ result.body.Response.n = 2

C27_NoWriteOnFailure ==
    [][(/\ Served /\ request' \in {call.req : call \in DataCalls}
        /\ ~Authorized(request', revoked, now)) =>
        /\ UNCHANGED <<users, facilities, associations>>
        /\ ~HandlerRan'
        /\ result'.kind = "response"
        /\ result'.status \in {401, 403, 404}]_vars

\* A delete by a revoked admin: row 1 is still there.
C27_Witness ==
    /\ request.route = DeleteUser
    /\ ValidToken(request.header, now) /\ request.header.sub = 1
    /\ 1 \in revoked
    /\ users[1] # Absent /\ associations = {}
    /\ result.kind = "response" /\ result.status = 401

\* C26: the dispatcher looks an error up by its exact class.  An error of a
\* class derived from a class of the taxonomy, or of WebException itself,
\* with no entry of its own in RESPONSE_MAP is answered 500 with Status
\* "Critical" and its string form, in both modes.
C26_ExactKind ==
    (/\ RaisedError
     /\ outcome.error.type \notin DOMAIN RESPONSE_MAP
     /\ \/ outcome.error.type = "WebException"
        \/ mro(outcome.error.type) \cap TaxonomyKinds # {}) =>
        HasBody(500, [Status |-> "Critical", Message |-> str(outcome.error)])

C26_Witness ==
    /\ StreamMode /\ HandlerRan
    /\ outcome.kind = "raise" /\ outcome.error.type = "UserNotFound"
    /\ result.kind = "response" /\ result.status = 500

(***************************************************************************)
(* Claims about refitt data select.                                        *)
(***************************************************************************)
\* C24: the query is built with limit 10 when neither --limit nor
\* --no-limit is given, with limit N under --limit N and with no limit
\* under --no-limit.
C24_DefaultLimit ==
    app.state \in {"dry-run", "written"} =>
        /\ (cmdline.limit.none /\ ~cmdline.no_limit) => app.limit = Count(DefaultLimit)
        /\ ~cmdline.limit.none => app.limit = cmdline.limit
        /\ cmdline.no_limit => app.limit = NoCount

PartNames(m) == {m.mime[i].name : i \in 1..Len(m.mime)}

\* The payload index of a mail names every part at its position, the
\* positions being 0..n-1 without repetition, and len() counts the parts.
IndexedParts(m) ==
    /\ DOMAIN m.payload_index = PartNames(m)
    /\ \A name \in DOMAIN m.payload_index :
        /\ m.payload_index[name] \in 0..(Len(m.mime) - 1)
        /\ m.mime[m.payload_index[name] + 1].name = name
    /\ \A a, b \in DOMAIN m.payload_index :
        m.payload_index[a] = m.payload_index[b] => a = b
    /\ {m.payload_index[name] : name \in DOMAIN m.payload_index} = 0..(Len(m.mime) - 1)
    /\ len(m) = Len(m.mime)

Events(ev, fn) == {k \in 1..Len(calls) : calls[k].ev = ev /\ calls[k].fn = fn}

\* The function was called and returned before the k-th event.
ReturnedBefore(fn, k) == \E r \in Events("return", fn) : r < k

====
